---- MODULE Spec2Model ----
(***************************************************************************)
(* Model of src/src/worker.js: the docstore Worker that maps a logical     *)
(* document namespace onto files of a GitHub repository.                   *)
(*                                                                         *)
(* JavaScript strings are TLA+ strings.  A text that is only ever handed   *)
(* to the base64 helpers (a document's content) is a sequence of UTF-16    *)
(* code units.  The backing store (GitHub's contents API) is the           *)
(* environment: it answers every call either as a store with optimistic    *)
(* concurrency would, or with a fault.                                     *)
(***************************************************************************)
EXTENDS Integers, Sequences, FiniteSets, TLC

(***************************************************************************)
(* Bounds of the model.                                                    *)
(***************************************************************************)
\* number of request slots (invocations of fetch); Spec drives slot 1 and
\* leaves the others unused
NumReqs == 2
\* the store hands out the revision markers s1 .. s<MaxSha>
MaxSha == 3

Reqs == 1 .. NumReqs

(***************************************************************************)
(* JavaScript values that are not strings.                                 *)
(***************************************************************************)
\* the value undefined (also: a header, query parameter or field that is absent)
Undefined == "<undefined>"

\* JavaScript truthiness of a string-or-undefined value: x ? .. : ..
Truthy(x) == x # Undefined /\ x # ""

\* a || b
OrElse(a, b) == IF Truthy(a) THEN a ELSE b

(***************************************************************************)
(* String helpers.                                                         *)
(***************************************************************************)
\* s.startsWith(p)
StartsWith(s, p) == Len(s) >= Len(p) /\ SubSeq(s, 1, Len(p)) = p

\* s.substring(n)
Substring(s, n) == SubSeq(s, n + 1, Len(s))

\* s.replace(/\/+$/, "")
RECURSIVE StripTrailingSlashes(_)
StripTrailingSlashes(s) ==
    IF Len(s) > 0 /\ SubSeq(s, Len(s), Len(s)) = "/"
    THEN StripTrailingSlashes(SubSeq(s, 1, Len(s) - 1))
    ELSE s

\* s.replace(/^\/+/, "")
RECURSIVE StripLeadingSlashes(_)
StripLeadingSlashes(s) ==
    IF Len(s) > 0 /\ SubSeq(s, 1, 1) = "/"
    THEN StripLeadingSlashes(Substring(s, 1))
    ELSE s

\* encodeURIComponent's %XX escapes of the reserved characters the model
\* uses; letters, digits, "." "-" "_" are left alone
EscapeOf(c) ==
    CASE c = "/" -> "%2F"
      [] c = "%" -> "%25"
      [] c = " " -> "%20"
      [] OTHER   -> c

RECURSIVE encodeURIComponent(_)
encodeURIComponent(s) ==
    IF s = "" THEN ""
    ELSE EscapeOf(SubSeq(s, 1, 1)) \o encodeURIComponent(Substring(s, 1))

\* the value thrown by decodeURIComponent on a malformed escape
URIError == "<URIError>"

\* the character of a %XX escape, Undefined when XX is not two hex digits
\* the model knows
UnescapeOf(e) ==
    CASE e = "%2F" -> "/"
      [] e = "%25" -> "%"
      [] e = "%20" -> " "
      [] OTHER     -> Undefined

\* decodeURIComponent(s): the decoded string, or URIError
RECURSIVE decodeURIComponent(_)
decodeURIComponent(s) ==
    IF s = "" THEN ""
    ELSE IF SubSeq(s, 1, 1) = "%"
         THEN IF Len(s) < 3 \/ UnescapeOf(SubSeq(s, 1, 3)) = Undefined
              THEN URIError
              ELSE LET rest == decodeURIComponent(Substring(s, 3))
                   IN  IF rest = URIError THEN URIError
                       ELSE UnescapeOf(SubSeq(s, 1, 3)) \o rest
         ELSE LET rest == decodeURIComponent(Substring(s, 1))
              IN  IF rest = URIError THEN URIError
                  ELSE SubSeq(s, 1, 1) \o rest

(***************************************************************************)
(* Path mapping (worker.js 62-74), and its inverse logicalPathFromGitPath  *)
(* (the Worker source kept in README.md, 20-29).                           *)
(***************************************************************************)
normalizeBaseDir(env) ==
    StripTrailingSlashes(OrElse(env.DOCS_BASE_DIR, "docs"))

\* buildRepoPath, were line 72 left out: the leading slashes stay
buildRepoPath_keepSlashes(env, docPath) ==
    LET base == normalizeBaseDir(env)
    IN  IF (~Truthy(docPath)) \/ docPath = "/"
        THEN base
        ELSE base \o "/" \o docPath

\* buildRepoPath, were line 69 only !docPath
buildRepoPath_slashAsPath(env, docPath) ==
    LET base == normalizeBaseDir(env)
    IN  IF ~Truthy(docPath)
        THEN base
        ELSE base \o "/" \o StripLeadingSlashes(docPath)

buildRepoPath(env, docPath) ==
    LET base == normalizeBaseDir(env)
    IN  IF (~Truthy(docPath)) \/ docPath = "/"
        THEN base
        ELSE base \o "/" \o StripLeadingSlashes(docPath)

\* logicalPathFromGitPath, were the prefix tested without its "/"
logicalPathFromGitPath_prefix(env, gitPath) ==
    LET base == normalizeBaseDir(env)
    IN  IF gitPath = base THEN ""
        ELSE IF StartsWith(gitPath, base)
        THEN Substring(gitPath, Len(base) + 1)
        ELSE gitPath

logicalPathFromGitPath(env, gitPath) ==
    LET base == normalizeBaseDir(env)
    IN  IF gitPath = base THEN ""
        ELSE IF StartsWith(gitPath, base \o "/")
        THEN Substring(gitPath, Len(base) + 1)
        ELSE gitPath

(***************************************************************************)
(* Base64 helpers (worker.js 4-22).  The Worker runtime provides btoa and  *)
(* atob, so toBase64 and fromBase64 take their first branch.               *)
(***************************************************************************)
\* the outcome of an expression that may throw
Returned(v) == [thrown |-> FALSE, value |-> v]
Thrown(msg) == [thrown |-> TRUE, message |-> msg]

B64Alphabet == "ABCDEFGHIJKLMNOPQRSTUVWXYZabcdefghijklmnopqrstuvwxyz0123456789+/"

B64Char(i) == SubSeq(B64Alphabet, i + 1, i + 1)

B64Index(c) == CHOOSE i \in 0 .. 63 : B64Char(i) = c

IsB64Char(c) == \E i \in 0 .. 63 : B64Char(i) = c

\* base64 of a sequence of bytes
RECURSIVE EncodeBytes(_)
EncodeBytes(b) ==
    IF Len(b) = 0 THEN ""
    ELSE IF Len(b) = 1
    THEN B64Char(b[1] \div 4) \o B64Char((b[1] % 4) * 16) \o "=="
    ELSE IF Len(b) = 2
    THEN B64Char(b[1] \div 4) \o B64Char((b[1] % 4) * 16 + b[2] \div 16)
         \o B64Char((b[2] % 16) * 4) \o "="
    ELSE B64Char(b[1] \div 4) \o B64Char((b[1] % 4) * 16 + b[2] \div 16)
         \o B64Char((b[2] % 16) * 4 + b[3] \div 64) \o B64Char(b[3] % 64)
         \o EncodeBytes(SubSeq(b, 4, Len(b)))

\* btoa(str): throws when a code unit is above 0xFF
btoa(str) ==
    IF \E i \in 1 .. Len(str) : str[i] > 255
    THEN Thrown("Invalid character")
    ELSE Returned(EncodeBytes(str))

toBase64(str) == btoa(str)

\* ASCII whitespace, which atob removes before decoding
IsAsciiWhitespace(c) == c \in {"\n", "\r", "\t", "\f", " "}

RECURSIVE RemoveWhitespace(_)
RemoveWhitespace(s) ==
    IF s = "" THEN ""
    ELSE IF IsAsciiWhitespace(SubSeq(s, 1, 1))
         THEN RemoveWhitespace(Substring(s, 1))
         ELSE SubSeq(s, 1, 1) \o RemoveWhitespace(Substring(s, 1))

\* atob drops one or two trailing "=" of a data whose length is a multiple
\* of four
RemovePadding(s) ==
    IF Len(s) % 4 = 0 /\ Len(s) >= 2 /\ SubSeq(s, Len(s) - 1, Len(s)) = "=="
    THEN SubSeq(s, 1, Len(s) - 2)
    ELSE IF Len(s) % 4 = 0 /\ Len(s) >= 1 /\ SubSeq(s, Len(s), Len(s)) = "="
    THEN SubSeq(s, 1, Len(s) - 1)
    ELSE s

\* the bytes of unpadded base64 data whose characters are all of the alphabet
RECURSIVE DecodeChars(_)
DecodeChars(s) ==
    LET v(i) == B64Index(SubSeq(s, i, i))
    IN  IF Len(s) <= 1 THEN << >>
        ELSE IF Len(s) = 2 THEN << v(1) * 4 + v(2) \div 16 >>
        ELSE IF Len(s) = 3
        THEN << v(1) * 4 + v(2) \div 16, (v(2) % 16) * 16 + v(3) \div 4 >>
        ELSE << v(1) * 4 + v(2) \div 16, (v(2) % 16) * 16 + v(3) \div 4,
                (v(3) % 4) * 64 + v(4) >> \o DecodeChars(Substring(s, 4))

\* atob, were white space in the data an invalid character
atob_strict(str) ==
    LET data == RemovePadding(IF str = Undefined THEN "undefined" ELSE str)
    IN  IF Len(data) % 4 = 1
           \/ \E i \in 1 .. Len(data) : ~IsB64Char(SubSeq(data, i, i))
        THEN Thrown("Invalid character")
        ELSE Returned(DecodeChars(data))

\* atob(str): undefined is converted to the string "undefined" first
atob(str) ==
    LET data == RemovePadding(RemoveWhitespace(
                    IF str = Undefined THEN "undefined" ELSE str))
    IN  IF Len(data) % 4 = 1
           \/ \E i \in 1 .. Len(data) : ~IsB64Char(SubSeq(data, i, i))
        THEN Thrown("Invalid character")
        ELSE Returned(DecodeChars(data))

fromBase64(str) == atob(str)

(***************************************************************************)
(* JSON values.  An object is a record with t = "object" and one string    *)
(* field per property it has; a nested object is flattened: the property   *)
(* itself holds ObjectMarker and its properties are named parent_child.    *)
(***************************************************************************)
ObjectMarker == "<object>"
NullMarker == "<null>"

JsonNull == [t |-> "null"]
JsonText == [t |-> "text"]
JsonArray(items) == [t |-> "array", items |-> items]

\* o[f] of a record that may lack the field
Field(o, f) == IF f \in DOMAIN o THEN o[f] ELSE Undefined

\* the message of the TypeError a property read of null or undefined throws
TypeError == "Cannot read properties of null or undefined"

\* json.f throws exactly when json is null
CanRead(json) == json.t # "null"

\* json.f, for a json that is not null: strings and arrays have none of the
\* properties the Worker reads
Prop(json, f) == IF json.t = "object" THEN Field(json, f) ELSE Undefined

\* json.f.g throws when json.f is undefined or null
CanReadNested(json, f) ==
    CanRead(json) /\ Prop(json, f) \notin {Undefined, NullMarker}

\* json.f.g, for a json.f that can be read
NestedProp(json, f, g) ==
    IF Prop(json, f) = ObjectMarker THEN Field(json, f \o "_" \o g)
    ELSE Undefined

(***************************************************************************)
(* githubRequest (worker.js 24-60).  res is what fetch(url, init) produced:*)
(* a network failure, or an HTTP response with a status and a parsed body. *)
(***************************************************************************)
NetworkFailure == [kind |-> "network-failure"]
Http(status, json) == [kind |-> "http", status |-> status, json |-> json]

\* res.ok
ResOk(res) == res.status \in 200 .. 299

\* err.status === 404
Is404(err) == "status" \in DOMAIN err /\ err.status = 404

githubRequest(res) ==
    IF res.kind = "network-failure"
    THEN Thrown("fetch failed")
    ELSE IF ~ResOk(res)
    THEN [thrown |-> TRUE,
          message |-> IF Truthy(Prop(res.json, "message"))
                      THEN res.json.message
                      ELSE "GitHub API error " \o ToString(res.status),
          status |-> res.status]
    ELSE Returned(res.json)

(***************************************************************************)
(* The calls getFile, putFile, deleteFile and listDocs hand to             *)
(* githubRequest (worker.js 76-138): method, API path and JSON body, with  *)
(* the Authorization header githubRequest adds.                            *)
(* JSON.stringify leaves out a property whose value is undefined, so a     *)
(* body property holding Undefined is a property the call does not carry.  *)
(***************************************************************************)
\* the credential githubRequest sends with every call (line 27)
Authorization(env) == "Bearer " \o env.GITHUB_TOKEN

ContentsPath(env, repoPath) ==
    "/repos/" \o env.GITHUB_OWNER \o "/" \o env.GITHUB_REPO \o "/contents/"
        \o encodeURIComponent(repoPath)

\* getFile (76-82) and listDocs (129-133) issue the same retrieval
RetrievalCall(env, docPath) ==
    [method |-> "GET",
     authorization |-> Authorization(env),
     path   |-> ContentsPath(env, buildRepoPath(env, docPath))
                    \o "?ref=" \o encodeURIComponent(env.GITHUB_BRANCH)]

getFile(env, docPath) == RetrievalCall(env, docPath)

listDocsCall(env, dirPath) == RetrievalCall(env, OrElse(dirPath, ""))

\* putFileWrite, were line 105-107 left out: the write never carries a sha
putFileWrite_noSha(env, docPath, encoded, commitMessage, existingSha) ==
    LET repoPath == buildRepoPath(env, docPath)
    IN  [method |-> "PUT",
         authorization |-> Authorization(env),
         path   |-> ContentsPath(env, repoPath),
         body   |-> [message |-> OrElse(commitMessage,
                                        IF Truthy(existingSha)
                                        THEN "Update " \o repoPath
                                        ELSE "Create " \o repoPath),
                     content |-> encoded,
                     branch  |-> env.GITHUB_BRANCH,
                     sha     |-> Undefined]]

\* putFileWrite, were the default message of line 100 always the update one
putFileWrite_alwaysUpdate(env, docPath, encoded, commitMessage, existingSha) ==
    LET repoPath == buildRepoPath(env, docPath)
    IN  [method |-> "PUT",
         authorization |-> Authorization(env),
         path   |-> ContentsPath(env, repoPath),
         body   |-> [message |-> OrElse(commitMessage, "Update " \o repoPath),
                     content |-> encoded,
                     branch  |-> env.GITHUB_BRANCH,
                     sha     |-> IF Truthy(existingSha) THEN existingSha
                                 ELSE Undefined]]

\* putFile 99-109: the write, once the discovery read has set existingSha
\* and toBase64 has returned encoded
putFileWrite(env, docPath, encoded, commitMessage, existingSha) ==
    LET repoPath == buildRepoPath(env, docPath)
    IN  [method |-> "PUT",
         authorization |-> Authorization(env),
         path   |-> ContentsPath(env, repoPath),
         body   |-> [message |-> OrElse(commitMessage,
                                        IF Truthy(existingSha)
                                        THEN "Update " \o repoPath
                                        ELSE "Create " \o repoPath),
                     content |-> encoded,
                     branch  |-> env.GITHUB_BRANCH,
                     sha     |-> IF Truthy(existingSha) THEN existingSha
                                 ELSE Undefined]]

\* deleteFileDelete, were the branch a fixed name instead of the configured
\* one
deleteFileDelete_fixedBranch(env, docPath, commitMessage, currentSha) ==
    LET repoPath == buildRepoPath(env, docPath)
    IN  [method |-> "DELETE",
         authorization |-> Authorization(env),
         path   |-> ContentsPath(env, repoPath),
         body   |-> [message |-> OrElse(commitMessage, "Delete " \o repoPath),
                     sha     |-> currentSha,
                     branch  |-> "master"]]

\* deleteFileDelete, were the delete addressed to the logical path instead
\* of repoPath
deleteFileDelete_logicalPath(env, docPath, commitMessage, currentSha) ==
    LET repoPath == buildRepoPath(env, docPath)
    IN  [method |-> "DELETE",
         authorization |-> Authorization(env),
         path   |-> ContentsPath(env, docPath),
         body   |-> [message |-> OrElse(commitMessage, "Delete " \o repoPath),
                     sha     |-> currentSha,
                     branch  |-> env.GITHUB_BRANCH]]

\* deleteFile 119-125: the delete, once the discovery read has returned
\* an object whose sha is currentSha
deleteFileDelete(env, docPath, commitMessage, currentSha) ==
    LET repoPath == buildRepoPath(env, docPath)
    IN  [method |-> "DELETE",
         authorization |-> Authorization(env),
         path   |-> ContentsPath(env, repoPath),
         body   |-> [message |-> OrElse(commitMessage, "Delete " \o repoPath),
                     sha     |-> currentSha,
                     branch  |-> env.GITHUB_BRANCH]]

(***************************************************************************)
(* Responses (worker.js 140-155).                                          *)
(***************************************************************************)
jsonResponse(obj, status) == [status |-> status, body |-> obj]

notFound(message) == jsonResponse([error |-> message], 404)

badRequest(message) == jsonResponse([error |-> message], 400)

\* topLevelCatch, were the error property left out of its body
topLevelCatch_noErrorField(message) ==
    jsonResponse([detail |-> message], 500)

\* the top-level catch of fetch (291-294)
topLevelCatch(message) ==
    jsonResponse([error |-> "Unexpected error", detail |-> message], 500)

\* internalError, were the caught error's message not passed on
internalError_generic(err) ==
    jsonResponse([error |-> "Internal error"], 500)

\* the 500 of the catch blocks of the GET, PUT and DELETE branches
internalError(err) ==
    jsonResponse([error |-> OrElse(err.message, "Internal error")], 500)

\* checkAuth, were a request without the header let through
checkAuth_missingHeaderPasses(request, env) ==
    IF request.pathname = "/" /\ request.method = "GET"
    THEN [ok |-> TRUE]
    ELSE IF ~Truthy(env.DOCSTORE_API_TOKEN)
    THEN [ok |-> FALSE, status |-> 500,
          message |-> "DOCSTORE_API_TOKEN is not configured"]
    ELSE IF request.auth # Undefined
            /\ request.auth # "Bearer " \o env.DOCSTORE_API_TOKEN
    THEN [ok |-> FALSE, status |-> 401, message |-> "Unauthorized"]
    ELSE [ok |-> TRUE]

\* checkAuth, were the header compared with startsWith instead of !==
checkAuth_prefix(request, env) ==
    IF request.pathname = "/" /\ request.method = "GET"
    THEN [ok |-> TRUE]
    ELSE IF ~Truthy(env.DOCSTORE_API_TOKEN)
    THEN [ok |-> FALSE, status |-> 500,
          message |-> "DOCSTORE_API_TOKEN is not configured"]
    ELSE IF ~StartsWith(OrElse(request.auth, ""),
                        "Bearer " \o env.DOCSTORE_API_TOKEN)
    THEN [ok |-> FALSE, status |-> 401, message |-> "Unauthorized"]
    ELSE [ok |-> TRUE]

\* checkAuth, were lines 165-167 left out: an unset token is compared as
\* the empty string
checkAuth_noConfigCheck(request, env) ==
    IF request.pathname = "/" /\ request.method = "GET"
    THEN [ok |-> TRUE]
    ELSE IF OrElse(request.auth, "")
              # "Bearer " \o OrElse(env.DOCSTORE_API_TOKEN, "")
    THEN [ok |-> FALSE, status |-> 401, message |-> "Unauthorized"]
    ELSE [ok |-> TRUE]

\* checkAuth, were the method left out of line 160: every request on "/" is
\* let through
checkAuth_rootAnyMethod(request, env) ==
    IF request.pathname = "/"
    THEN [ok |-> TRUE]
    ELSE IF ~Truthy(env.DOCSTORE_API_TOKEN)
    THEN [ok |-> FALSE, status |-> 500,
          message |-> "DOCSTORE_API_TOKEN is not configured"]
    ELSE IF OrElse(request.auth, "") # "Bearer " \o env.DOCSTORE_API_TOKEN
    THEN [ok |-> FALSE, status |-> 401, message |-> "Unauthorized"]
    ELSE [ok |-> TRUE]

(***************************************************************************)
(* checkAuth (worker.js 157-174).  request.auth is what                    *)
(* request.headers.get("Authorization") returns, Undefined for null.       *)
(***************************************************************************)
\* checkAuth, were the 401 to tell the caller the header it expects
checkAuth_tellsExpected(request, env) ==
    IF request.pathname = "/" /\ request.method = "GET"
    THEN [ok |-> TRUE]
    ELSE IF ~Truthy(env.DOCSTORE_API_TOKEN)
    THEN [ok |-> FALSE, status |-> 500,
          message |-> "DOCSTORE_API_TOKEN is not configured"]
    ELSE IF OrElse(request.auth, "") # "Bearer " \o env.DOCSTORE_API_TOKEN
    THEN [ok |-> FALSE, status |-> 401,
          message |-> "Unauthorized: expected Bearer "
                          \o env.DOCSTORE_API_TOKEN]
    ELSE [ok |-> TRUE]

checkAuth(request, env) ==
    IF request.pathname = "/" /\ request.method = "GET"
    THEN [ok |-> TRUE]
    ELSE IF ~Truthy(env.DOCSTORE_API_TOKEN)
    THEN [ok |-> FALSE, status |-> 500,
          message |-> "DOCSTORE_API_TOKEN is not configured"]
    ELSE IF OrElse(request.auth, "") # "Bearer " \o env.DOCSTORE_API_TOKEN
    THEN [ok |-> FALSE, status |-> 401, message |-> "Unauthorized"]
    ELSE [ok |-> TRUE]

(***************************************************************************)
(* fetch (worker.js 176-296), cut at its awaits of the backing store.      *)
(* Each piece yields either the response of the request or the call it     *)
(* issues next together with the place where the handler then waits.       *)
(*                                                                         *)
(* A request is [method, pathname, dir, auth, body]: dir is                *)
(* searchParams.get("dir"); body is what request.json() makes of the body: *)
(* kind "unparseable" when it throws, "null" for the JSON text null, and   *)
(* "object" with content and message otherwise.                            *)
(***************************************************************************)
Done(response) == [pc |-> "done", response |-> response]
Await(label, call) == [pc |-> label, call |-> call]

\* a content property that is missing or not a string
NotAString == << -1 >>

\* line 204
docPathOf(request) ==
    decodeURIComponent(Substring(request.pathname, Len("/docs/")))

\* lines 238 and 267; the DELETE branch reads {} for an unparseable body
commitMessageOf(request) ==
    IF request.body.kind = "object" THEN request.body.message ELSE Undefined

\* fetchStart, were line 287 left out: another method on a document path
\* falls through to line 290
fetchStart_no405(request, env) ==
    LET auth == checkAuth(request, env)
        docPath == docPathOf(request)
    IN  IF ~auth.ok
        THEN Done(jsonResponse([error |-> auth.message], auth.status))
        ELSE IF request.pathname = "/" /\ request.method = "GET"
        THEN Done(jsonResponse([status |-> "ok"], 200))
        ELSE IF request.pathname = "/docs" /\ request.method = "GET"
        THEN Await("list", listDocsCall(env, OrElse(request.dir, "")))
        ELSE IF ~StartsWith(request.pathname, "/docs/")
        THEN Done(notFound("Not found"))
        ELSE IF docPath = URIError
        THEN Done(topLevelCatch("URI malformed"))
        ELSE IF request.method = "GET"
        THEN Await("get", getFile(env, docPath))
        ELSE IF request.method = "PUT"
        THEN IF request.body.kind = "unparseable"
             THEN Done(badRequest("Expected JSON body"))
             ELSE IF request.body.kind = "null"
             THEN Done(topLevelCatch(TypeError))
             ELSE IF request.body.content = NotAString
             THEN Done(badRequest("Field 'content' (string) is required"))
             ELSE Await("putDiscover", getFile(env, docPath))
        ELSE IF request.method = "DELETE"
        THEN IF request.body.kind = "null"
             THEN Done(topLevelCatch(TypeError))
             ELSE Await("deleteDiscover", getFile(env, docPath))
        ELSE Done(notFound("Not found"))

\* fetchStart, were an unknown path and an unsupported method refused
\* before checkAuth is asked
fetchStart_routesFirst(request, env) ==
    LET auth == checkAuth(request, env)
        docPath == docPathOf(request)
        open == request.pathname = "/" /\ request.method = "GET"
        collection == request.pathname = "/docs" /\ request.method = "GET"
    IN  IF ~open /\ ~collection /\ ~StartsWith(request.pathname, "/docs/")
        THEN Done(notFound("Not found"))
        ELSE IF ~open /\ ~collection
                /\ request.method \notin {"GET", "PUT", "DELETE"}
        THEN Done(jsonResponse([error |-> "Method not allowed"], 405))
        ELSE IF ~auth.ok
        THEN Done(jsonResponse([error |-> auth.message], auth.status))
        ELSE IF open
        THEN Done(jsonResponse([status |-> "ok"], 200))
        ELSE IF collection
        THEN Await("list", listDocsCall(env, OrElse(request.dir, "")))
        ELSE IF docPath = URIError
        THEN Done(topLevelCatch("URI malformed"))
        ELSE IF request.method = "GET"
        THEN Await("get", getFile(env, docPath))
        ELSE IF request.method = "PUT"
        THEN IF request.body.kind = "unparseable"
             THEN Done(badRequest("Expected JSON body"))
             ELSE IF request.body.kind = "null"
             THEN Done(topLevelCatch(TypeError))
             ELSE IF request.body.content = NotAString
             THEN Done(badRequest("Field 'content' (string) is required"))
             ELSE Await("putDiscover", getFile(env, docPath))
        ELSE IF request.body.kind = "null"
        THEN Done(topLevelCatch(TypeError))
        ELSE Await("deleteDiscover", getFile(env, docPath))

\* lines 178-241 and 260-270: up to the first call of the backing store
fetchStart(request, env) ==
    LET auth == checkAuth(request, env)
        docPath == docPathOf(request)
    IN  IF ~auth.ok
        THEN Done(jsonResponse([error |-> auth.message], auth.status))
        ELSE IF request.pathname = "/" /\ request.method = "GET"
        THEN Done(jsonResponse([status |-> "ok"], 200))
        ELSE IF request.pathname = "/docs" /\ request.method = "GET"
        THEN Await("list", listDocsCall(env, OrElse(request.dir, "")))
        ELSE IF ~StartsWith(request.pathname, "/docs/")
        THEN Done(notFound("Not found"))
        ELSE IF docPath = URIError
        THEN Done(topLevelCatch("URI malformed"))
        ELSE IF request.method = "GET"
        THEN Await("get", getFile(env, docPath))
        ELSE IF request.method = "PUT"
        THEN IF request.body.kind = "unparseable"
             THEN Done(badRequest("Expected JSON body"))
             ELSE IF request.body.kind = "null"
             THEN Done(topLevelCatch(TypeError))
             ELSE IF request.body.content = NotAString
             THEN Done(badRequest("Field 'content' (string) is required"))
             ELSE Await("putDiscover", getFile(env, docPath))
        ELSE IF request.method = "DELETE"
        THEN IF request.body.kind = "null"
             THEN Done(topLevelCatch(TypeError))
             ELSE Await("deleteDiscover", getFile(env, docPath))
        ELSE Done(jsonResponse([error |-> "Method not allowed"], 405))

\* fetchListed, were listDocs 134-136 left out: a result that is not an
\* array has no map
fetchListed_noWrap(out) ==
    LET items == IF out.value.t = "array" THEN out.value.items ELSE << >>
    IN  IF out.thrown
        THEN Done(topLevelCatch(out.message))
        ELSE IF out.value.t # "array"
        THEN Done(topLevelCatch("items.map is not a function"))
        ELSE IF \E i \in 1 .. Len(items) : ~CanRead(items[i])
        THEN Done(topLevelCatch(TypeError))
        ELSE Done(jsonResponse(
                 [items |-> [i \in 1 .. Len(items) |->
                                [name |-> Prop(items[i], "name"),
                                 path |-> Prop(items[i], "path"),
                                 type |-> Prop(items[i], "type")]]], 200))

\* lines 194-200, with listDocs 133-137: out is what githubRequest made of
\* the listing retrieval
fetchListed(out) ==
    LET items == IF out.value.t = "array" THEN out.value.items
                 ELSE << out.value >>
    IN  IF out.thrown
        THEN Done(topLevelCatch(out.message))
        ELSE IF \E i \in 1 .. Len(items) : ~CanRead(items[i])
        THEN Done(topLevelCatch(TypeError))
        ELSE Done(jsonResponse(
                 [items |-> [i \in 1 .. Len(items) |->
                                [name |-> Prop(items[i], "name"),
                                 path |-> Prop(items[i], "path"),
                                 type |-> Prop(items[i], "type")]]], 200))

\* fetchGot, were lines 220-222 left out: a 404 is an error like any other
fetchGot_noNotFound(out) ==
    LET file == out.value
        content == fromBase64(Prop(file, "content"))
    IN  IF out.thrown
        THEN Done(internalError(out))
        ELSE IF ~CanRead(file)
        THEN Done(internalError(Thrown(TypeError)))
        ELSE IF Prop(file, "type") # "file"
        THEN Done(badRequest("Requested path is not a file"))
        ELSE IF content.thrown
        THEN Done(internalError(content))
        ELSE Done(jsonResponse([path    |-> Prop(file, "path"),
                                name    |-> Prop(file, "name"),
                                sha     |-> Prop(file, "sha"),
                                content |-> content.value], 200))

\* fetchGot, were lines 209-211 left out: whatever was retrieved is decoded
fetchGot_noTypeCheck(out) ==
    LET file == out.value
        content == fromBase64(Prop(file, "content"))
    IN  IF out.thrown
        THEN IF Is404(out) THEN Done(notFound("Document not found"))
             ELSE Done(internalError(out))
        ELSE IF ~CanRead(file)
        THEN Done(internalError(Thrown(TypeError)))
        ELSE IF content.thrown
        THEN Done(internalError(content))
        ELSE Done(jsonResponse([path    |-> Prop(file, "path"),
                                name    |-> Prop(file, "name"),
                                sha     |-> Prop(file, "sha"),
                                content |-> content.value], 200))

\* lines 207-225: out is what githubRequest made of getFile's retrieval
fetchGot(out) ==
    LET file == out.value
        content == fromBase64(Prop(file, "content"))
    IN  IF out.thrown
        THEN IF Is404(out) THEN Done(notFound("Document not found"))
             ELSE Done(internalError(out))
        ELSE IF ~CanRead(file)
        THEN Done(internalError(Thrown(TypeError)))
        ELSE IF Prop(file, "type") # "file"
        THEN Done(badRequest("Requested path is not a file"))
        ELSE IF content.thrown
        THEN Done(internalError(content))
        ELSE Done(jsonResponse([path    |-> Prop(file, "path"),
                                name    |-> Prop(file, "name"),
                                sha     |-> Prop(file, "sha"),
                                content |-> content.value], 200))

\* putFileDiscovered, were every failure of the discovery read swallowed
\* like a 404
putFileDiscovered_writesBlind(request, env, out) ==
    LET current == out.value
        encoded == toBase64(request.body.content)
        existingSha == IF out.thrown THEN Undefined ELSE Prop(current, "sha")
    IN  IF ~out.thrown /\ ~CanRead(current)
        THEN Done(internalError(Thrown(TypeError)))
        ELSE IF encoded.thrown
        THEN Done(internalError(encoded))
        ELSE Await("putWrite",
                   putFileWrite(env, docPathOf(request), encoded.value,
                                commitMessageOf(request), existingSha))

\* putFileDiscovered, were a failed discovery read tried again
putFileDiscovered_retries(request, env, out) ==
    LET current == out.value
        encoded == toBase64(request.body.content)
        existingSha == IF out.thrown THEN Undefined ELSE Prop(current, "sha")
    IN  IF out.thrown /\ ~Is404(out)
        THEN Await("putDiscover", getFile(env, docPathOf(request)))
        ELSE IF ~out.thrown /\ ~CanRead(current)
        THEN Done(internalError(Thrown(TypeError)))
        ELSE IF encoded.thrown
        THEN Done(internalError(encoded))
        ELSE Await("putWrite",
                   putFileWrite(env, docPathOf(request), encoded.value,
                                commitMessageOf(request), existingSha))

\* putFileDiscovered, were a branch named in the body of the request
\* written to instead of the configured one
putFileDiscovered_bodyBranch(request, env, out) ==
    LET current == out.value
        encoded == toBase64(request.body.content)
        existingSha == IF out.thrown THEN Undefined ELSE Prop(current, "sha")
        target == [env EXCEPT !.GITHUB_BRANCH =
                                  OrElse(request.body.branch, @)]
    IN  IF out.thrown /\ ~Is404(out)
        THEN Done(internalError(out))
        ELSE IF ~out.thrown /\ ~CanRead(current)
        THEN Done(internalError(Thrown(TypeError)))
        ELSE IF encoded.thrown
        THEN Done(internalError(encoded))
        ELSE Await("putWrite",
                   putFileWrite(target, docPathOf(request), encoded.value,
                                commitMessageOf(request), existingSha))

\* putFile 89-109 after the discovery read, with the catch of lines 251-257:
\* out is what githubRequest made of the discovery read
putFileDiscovered(request, env, out) ==
    LET current == out.value
        encoded == toBase64(request.body.content)
        \* line 89 and line 92
        existingSha == IF out.thrown THEN Undefined ELSE Prop(current, "sha")
    IN  IF out.thrown /\ ~Is404(out)
        THEN Done(internalError(out))
        ELSE IF ~out.thrown /\ ~CanRead(current)
        THEN Done(internalError(Thrown(TypeError)))
        ELSE IF encoded.thrown
        THEN Done(internalError(encoded))
        ELSE Await("putWrite",
                   putFileWrite(env, docPathOf(request), encoded.value,
                                commitMessageOf(request), existingSha))

\* lines 241-257: out is what githubRequest made of putFile's write
fetchPut(out) ==
    LET result == out.value
    IN  IF out.thrown
        THEN IF Is404(out) THEN Done(notFound("Repository or branch not found"))
             ELSE Done(internalError(out))
        ELSE IF ~CanReadNested(result, "content")
                \/ ~CanReadNested(result, "commit")
        THEN Done(internalError(Thrown(TypeError)))
        ELSE Done(jsonResponse(
                 [path   |-> NestedProp(result, "content", "path"),
                  name   |-> NestedProp(result, "content", "name"),
                  sha    |-> NestedProp(result, "content", "sha"),
                  commit |-> [sha     |-> NestedProp(result, "commit", "sha"),
                              message |-> NestedProp(result, "commit",
                                                     "message")]], 200))

\* the catch of the DELETE branch, lines 278-284
deleteCatch(err) ==
    IF Is404(err) THEN Done(notFound("Document not found"))
    ELSE Done(internalError(err))

\* deleteFileDiscovered, were a 404 of the discovery read caught as in
\* putFile
deleteFileDiscovered_ignores404(request, env, out) ==
    LET current == out.value
    IN  IF out.thrown /\ ~Is404(out)
        THEN deleteCatch(out)
        ELSE IF ~out.thrown /\ ~CanRead(current)
        THEN deleteCatch(Thrown(TypeError))
        ELSE Await("deleteDelete",
                   deleteFileDelete(env, docPathOf(request),
                                    commitMessageOf(request),
                                    IF out.thrown THEN Undefined
                                    ELSE Prop(current, "sha")))

\* deleteFile 117-125 after the discovery read: out is what githubRequest
\* made of it
deleteFileDiscovered(request, env, out) ==
    LET current == out.value
    IN  IF out.thrown
        THEN deleteCatch(out)
        ELSE IF ~CanRead(current)
        THEN deleteCatch(Thrown(TypeError))
        ELSE Await("deleteDelete",
                   deleteFileDelete(env, docPathOf(request),
                                    commitMessageOf(request),
                                    Prop(current, "sha")))

\* lines 270-284: out is what githubRequest made of deleteFile's delete
fetchDeleted(request, out) ==
    LET result == out.value
    IN  IF out.thrown
        THEN deleteCatch(out)
        ELSE IF ~CanReadNested(result, "commit")
        THEN deleteCatch(Thrown(TypeError))
        ELSE Done(jsonResponse(
                 [path   |-> docPathOf(request),
                  commit |-> [sha     |-> NestedProp(result, "commit", "sha"),
                              message |-> NestedProp(result, "commit",
                                                     "message")]], 200))

\* fetch resumes at the await named label with out, what githubRequest made
\* of the awaited call
Continue(label, request, env, out) ==
    CASE label = "list"           -> fetchListed(out)
      [] label = "get"            -> fetchGot(out)
      [] label = "putDiscover"    -> putFileDiscovered(request, env, out)
      [] label = "putWrite"       -> fetchPut(out)
      [] label = "deleteDiscover" -> deleteFileDiscovered(request, env, out)
      [] label = "deleteDelete"   -> fetchDeleted(request, out)

\* fetch as a whole: the handler run on request under env, the awaited calls
\* yielding answers in turn; where it stands once the answers are used up
RECURSIVE fetchFrom(_, _, _, _)
fetchFrom(step, request, env, answers) ==
    IF step.pc = "done" \/ answers = << >>
    THEN step
    ELSE fetchFrom(Continue(step.pc, request, env, Head(answers)),
                   request, env, Tail(answers))

fetch(request, env, answers) ==
    fetchFrom(fetchStart(request, env), request, env, answers)

(***************************************************************************)
(* The backing store: GitHub's contents API on the configured branch.      *)
(* It tracks the files RepoFiles; store[p].sha is the revision marker of   *)
(* file p, Undefined while p does not exist.  An update or delete is       *)
(* accepted only with the current marker, a create only without a marker   *)
(* while the file is absent; a marker that is not the current one (the     *)
(* file was changed or deleted since) is rejected as a conflict.           *)
(***************************************************************************)
RepoFiles == {"docs/a.md"}

AbsentFile == [sha |-> Undefined, content |-> ""]

\* the revision marker and the commit identifier of the n-th accepted write
ShaOf(n) == "s" \o ToString(n)
CommitOf(n) == "c" \o ToString(n)

\* the part of an API path before its query string
RECURSIVE BeforeQuery(_)
BeforeQuery(s) ==
    IF s = "" \/ SubSeq(s, 1, 1) = "?" THEN ""
    ELSE SubSeq(s, 1, 1) \o BeforeQuery(Substring(s, 1))

\* the last segment of a path
RECURSIVE BaseName(_)
BaseName(s) ==
    IF \E i \in 1 .. Len(s) : SubSeq(s, i, i) = "/"
    THEN BaseName(Substring(s, 1))
    ELSE s

\* the query string of an API path, from its question mark on
RECURSIVE QueryOf(_)
QueryOf(s) ==
    IF s = "" \/ SubSeq(s, 1, 1) = "?" THEN s
    ELSE QueryOf(Substring(s, 1))

\* the repository path a call addresses
CallRepoPath(env, call) ==
    decodeURIComponent(
        Substring(BeforeQuery(call.path), Len(ContentsPath(env, ""))))

FileObject(p, file) ==
    [t |-> "object", type |-> "file", path |-> p, name |-> BaseName(p),
     sha |-> file.sha, content |-> file.content]

ListingEntry(p, file) ==
    [t |-> "object", type |-> "file", path |-> p, name |-> BaseName(p),
     sha |-> file.sha]

ErrorBody(message) == [t |-> "object", message |-> message]

WriteResult(p, sha, commit, message) ==
    [t |-> "object", content |-> ObjectMarker, content_path |-> p,
     content_name |-> BaseName(p), content_sha |-> sha,
     commit |-> ObjectMarker, commit_sha |-> commit,
     commit_message |-> message]

DeleteResult(commit, message) ==
    [t |-> "object", content |-> NullMarker,
     commit |-> ObjectMarker, commit_sha |-> commit,
     commit_message |-> message]

\* the files of st directly under directory dir, in some order
RECURSIVE ListingOf(_, _, _)
ListingOf(st, dir, files) ==
    IF files = {} THEN << >>
    ELSE LET p == CHOOSE q \in files : TRUE
             rest == ListingOf(st, dir, files \ {p})
         IN  IF st[p].sha # Undefined /\ p = dir \o "/" \o BaseName(p)
             THEN << ListingEntry(p, st[p]) >> \o rest
             ELSE rest

\* The store's own answer to a call, and the store after it:
\* [res, store, minted].
StoreAnswer(env, st, n, call) ==
    LET p == CallRepoPath(env, call)
        same(res) == [res |-> res, store |-> st, minted |-> n]
        listing == ListingOf(st, p, RepoFiles)
        notFoundRes == Http(404, ErrorBody("Not Found"))
        conflict == Http(409, ErrorBody(p \o " does not match "
                                          \o Field(call.body, "sha")))
        missingSha == Http(422, ErrorBody("sha wasn't supplied"))
    IN  IF call.method = "GET"
        THEN IF p \in RepoFiles /\ st[p].sha # Undefined
             THEN same(Http(200, FileObject(p, st[p])))
             ELSE IF listing # << >>
             THEN same(Http(200, JsonArray(listing)))
             ELSE same(notFoundRes)
        ELSE IF call.method = "PUT"
        THEN IF p \notin RepoFiles
             THEN same(Http(201, WriteResult(p, ShaOf(n + 1), CommitOf(n + 1),
                                             call.body.message)))
             ELSE IF st[p].sha = Undefined /\ call.body.sha # Undefined
             THEN same(conflict)
             ELSE IF st[p].sha # Undefined /\ call.body.sha = Undefined
             THEN same(missingSha)
             ELSE IF st[p].sha # call.body.sha
             THEN same(conflict)
             ELSE [res |-> Http(IF st[p].sha = Undefined THEN 201 ELSE 200,
                                WriteResult(p, ShaOf(n + 1), CommitOf(n + 1),
                                            call.body.message)),
                   store |-> [st EXCEPT ![p] =
                                 [sha |-> ShaOf(n + 1),
                                  content |-> call.body.content]],
                   minted |-> n + 1]
        ELSE IF p \notin RepoFiles
             THEN same(notFoundRes)
             ELSE IF call.body.sha = Undefined
             THEN same(IF st[p].sha = Undefined THEN notFoundRes
                       ELSE missingSha)
             ELSE IF st[p].sha # call.body.sha
             THEN same(conflict)
             ELSE [res |-> Http(200, DeleteResult(CommitOf(n + 1),
                                                  call.body.message)),
                   store |-> [st EXCEPT ![p] = AbsentFile],
                   minted |-> n + 1]

\* What the backing store may answer instead: an unreachable network, an
\* error status with or without a message, or a success of another shape
\* (an empty body, a directory listing, an object without properties).
Faults ==
    { NetworkFailure,
      Http(500, ErrorBody("Server Error")),
      Http(502, JsonText),
      Http(404, ErrorBody("Not Found")),
      Http(200, JsonNull),
      Http(200, [t |-> "object"]),
      Http(200, JsonArray(<< [t |-> "object", type |-> "dir",
                              name |-> "ftl", path |-> "docs/ftl",
                              sha |-> "d1"] >>)),
      Http(200, JsonArray(<< JsonNull >>)) }

\* every answer to a call: the store's own, or a fault that leaves the
\* store as it is
Answers(env, st, n, call) ==
    { a \in { StoreAnswer(env, st, n, call) } : a.minted <= MaxSha }
        \cup { [res |-> f, store |-> st, minted |-> n] : f \in Faults }

(***************************************************************************)
(* The requests the model sends.                                           *)
(***************************************************************************)
Methods == {"GET", "PUT", "DELETE", "POST"}

Pathnames == {"/", "/docs", "/docs/", "/docs/a.md", "/docs/%", "/other"}

\* the Authorization header: absent, empty, the expected value for the
\* token "tk", and values that contain it, are a prefix of it, or differ
\* from it in case or white space
AuthHeaders ==
    {Undefined, "", "Bearer tk", "Bearer tkx", "xBearer tk", "Bearer t",
     "bearer tk", "Bearer TK", "Bearer  tk", "tk"}

\* "Hi", and a CJK ideograph (U+6F22)
Texts == {<< 72, 105 >>, << 28450 >>}

NoBody == [kind |-> "unparseable", content |-> NotAString,
           message |-> Undefined, branch |-> Undefined]

\* a body may carry properties the handler never reads, such as a branch
Bodies ==
    {NoBody, [kind |-> "null", content |-> NotAString, message |-> Undefined,
              branch |-> Undefined]}
        \cup [kind : {"object"}, content : Texts \cup {NotAString},
              message : {Undefined, "", "msg"},
              branch : {Undefined, "other"}]

\* a request the handler has not received yet
NoRequest == [method |-> "", pathname |-> "", dir |-> Undefined,
              auth |-> Undefined, body |-> NoBody]

\* only the collection route reads the query, only PUT and DELETE the body
Requests ==
    { q \in [method : Methods, pathname : Pathnames,
             dir : {Undefined, "ftl", "a.md"}, auth : AuthHeaders, body : Bodies] :
        /\ q.dir # Undefined => q.pathname = "/docs" /\ q.method = "GET"
        /\ q.body # NoBody => q.method \in {"PUT", "DELETE"} }

\* the configurations: the API token unset, empty or set, the base directory
\* unset, plain, or with a trailing slash
Envs ==
    [GITHUB_OWNER : {"o"}, GITHUB_REPO : {"r"}, GITHUB_BRANCH : {"main"},
     GITHUB_TOKEN : {"gh"}, DOCS_BASE_DIR : {Undefined, "docs", "docs/"},
     DOCSTORE_API_TOKEN : {Undefined, "", "tk"}]

(***************************************************************************)
(* State.                                                                  *)
(***************************************************************************)
VARIABLES
    env,      \* the configuration the Worker runs with
    store,    \* the backing store: repository path -> [sha, content]
    minted,   \* number of writes the store has accepted
    req,      \* req[r]: the request of slot r
    pc,       \* pc[r]: where the handler of slot r stands
    calls,    \* calls[r]: the backing-store calls issued for r, in order
    outs,     \* outs[r]: what githubRequest made of each answered call
    resp,     \* resp[r]: the responses produced for r
    mapper    \* the path mapper on its own: [input, applied]

vars == << env, store, minted, req, pc, calls, outs, resp, mapper >>

\* the call slot r is waiting on
Pending(r) == calls[r][Len(calls[r])]

InitStores ==
    { [p \in RepoFiles |-> f] :
        f \in {AbsentFile, [sha |-> ShaOf(1), content |-> "SGk="]} }

\* no path has been handed to the path mapper on its own
NoMapper == [input |-> "", applied |-> << >>]

InitCommon ==
    /\ env \in Envs
    /\ mapper = NoMapper
    /\ store \in InitStores
    /\ minted = 1
    /\ req = [r \in Reqs |-> NoRequest]
    /\ calls = [r \in Reqs |-> << >>]
    /\ outs = [r \in Reqs |-> << >>]
    /\ resp = [r \in Reqs |-> << >>]

\* one request is handled; other writers act on the store meanwhile
Init ==
    /\ InitCommon
    /\ pc = [r \in Reqs |-> IF r = 1 THEN "idle" ELSE "unused"]

\* the handler of r moves on as step says
Advance(r, step) ==
    /\ pc' = [pc EXCEPT ![r] = step.pc]
    /\ IF step.pc = "done"
       THEN /\ resp' = [resp EXCEPT ![r] = Append(@, step.response)]
            /\ calls' = calls
       ELSE /\ calls' = [calls EXCEPT ![r] = Append(@, step.call)]
            /\ resp' = resp

\* fetch is invoked with a request and runs up to its first call
Start(r) ==
    /\ pc[r] = "idle"
    /\ \E request \in Requests :
          /\ req' = [req EXCEPT ![r] = request]
          /\ Advance(r, fetchStart(request, env))
    /\ UNCHANGED << env, store, minted, outs, mapper >>

\* the backing store answers the pending call of r with a, and githubRequest
\* returns or throws
Reply(r, a) ==
    /\ store' = a.store
    /\ minted' = a.minted
    /\ outs' = [outs EXCEPT ![r] = Append(@, githubRequest(a.res))]
    /\ UNCHANGED << env, req, mapper >>

\* the listing retrieval of GET /docs is answered
Listed(r) ==
    /\ pc[r] = "list"
    /\ \E a \in Answers(env, store, minted, Pending(r)) :
          /\ Reply(r, a)
          /\ Advance(r, fetchListed(githubRequest(a.res)))

\* the retrieval of GET /docs/<path> is answered
Got(r) ==
    /\ pc[r] = "get"
    /\ \E a \in Answers(env, store, minted, Pending(r)) :
          /\ Reply(r, a)
          /\ Advance(r, fetchGot(githubRequest(a.res)))

\* the discovery read of a PUT is answered
PutDiscovered(r) ==
    /\ pc[r] = "putDiscover"
    /\ \E a \in Answers(env, store, minted, Pending(r)) :
          /\ Reply(r, a)
          /\ Advance(r, putFileDiscovered(req[r], env, githubRequest(a.res)))

\* the write of a PUT is answered
PutWritten(r) ==
    /\ pc[r] = "putWrite"
    /\ \E a \in Answers(env, store, minted, Pending(r)) :
          /\ Reply(r, a)
          /\ Advance(r, fetchPut(githubRequest(a.res)))

\* the discovery read of a DELETE is answered
DeleteDiscovered(r) ==
    /\ pc[r] = "deleteDiscover"
    /\ \E a \in Answers(env, store, minted, Pending(r)) :
          /\ Reply(r, a)
          /\ Advance(r, deleteFileDiscovered(req[r], env,
                                             githubRequest(a.res)))

\* the delete of a DELETE is answered
Deleted(r) ==
    /\ pc[r] = "deleteDelete"
    /\ \E a \in Answers(env, store, minted, Pending(r)) :
          /\ Reply(r, a)
          /\ Advance(r, fetchDeleted(req[r], githubRequest(a.res)))

\* another writer creates, changes or deletes a file of the repository
OtherWriter ==
    /\ minted < MaxSha
    /\ \E p \in RepoFiles :
          \E f \in {AbsentFile, [sha |-> ShaOf(minted + 1),
                                  content |-> "SG\nkh\n"]} :
             /\ f # store[p]
             /\ store' = [store EXCEPT ![p] = f]
    /\ minted' = minted + 1
    /\ UNCHANGED << env, req, pc, calls, outs, resp, mapper >>

Next ==
    \/ \E r \in Reqs : Start(r)
    \/ \E r \in Reqs : Listed(r)
    \/ \E r \in Reqs : Got(r)
    \/ \E r \in Reqs : PutDiscovered(r)
    \/ \E r \in Reqs : PutWritten(r)
    \/ \E r \in Reqs : DeleteDiscovered(r)
    \/ \E r \in Reqs : Deleted(r)
    \/ OtherWriter

Spec == Init /\ [][Next]_vars

TypeOK ==
    /\ env \in Envs
    /\ minted \in 1 .. MaxSha
    /\ \A r \in Reqs :
          /\ pc[r] \in {"unused", "idle", "list", "get", "putDiscover",
                         "putWrite", "deleteDiscover", "deleteDelete", "done"}
          /\ Len(outs[r]) <= Len(calls[r])

(***************************************************************************)
(* Concurrent requests: every slot receives a request, and the handlers    *)
(* run interleaved at their awaits, each other's writes being the changes  *)
(* of the store.  The requests are authenticated requests on the one       *)
(* document and on the collection; the store answers a call as it stands   *)
(* or fails with a server error.                                           *)
(***************************************************************************)
ConcEnv ==
    [GITHUB_OWNER |-> "o", GITHUB_REPO |-> "r", GITHUB_BRANCH |-> "main",
     GITHUB_TOKEN |-> "gh", DOCS_BASE_DIR |-> "docs",
     DOCSTORE_API_TOKEN |-> "tk"]

ConcRequests ==
    { q \in [method : {"GET", "PUT", "DELETE"},
             pathname : {"/docs", "/docs/a.md"}, dir : {Undefined},
             auth : {"Bearer tk"},
             body : {NoBody, [kind |-> "object", content |-> << 72, 105 >>,
                              message |-> Undefined,
                              branch |-> Undefined]}] :
        /\ q.pathname = "/docs" => q.method = "GET"
        /\ q.method = "PUT" <=> q.body # NoBody }

ConcAnswers(call) ==
    { a \in { StoreAnswer(env, store, minted, call) } : a.minted <= MaxSha }
        \cup { [res |-> Http(500, ErrorBody("Server Error")),
                store |-> store, minted |-> minted] }

ConcInit ==
    /\ env = ConcEnv
    /\ mapper = NoMapper
    /\ store \in InitStores
    /\ minted = 1
    /\ req = [r \in Reqs |-> NoRequest]
    /\ pc = [r \in Reqs |-> "idle"]
    /\ calls = [r \in Reqs |-> << >>]
    /\ outs = [r \in Reqs |-> << >>]
    /\ resp = [r \in Reqs |-> << >>]

\* Arrive, were the marker of a document kept in a module-level cache and a
\* later put or delete to write with it instead of reading the document
Arrive_cachedMarker(r) ==
    /\ pc[r] = "idle"
    /\ \E request \in ConcRequests :
          LET first == fetchStart(request, env)
              known == { r2 \in Reqs : /\ Len(outs[r2]) >= 1
                                       /\ ~outs[r2][1].thrown
                                       /\ req[r2].pathname = request.pathname }
              cached == outs[CHOOSE r2 \in known : TRUE][1]
          IN  /\ req' = [req EXCEPT ![r] = request]
              /\ IF first.pc \in {"putDiscover", "deleteDiscover"}
                    /\ known # {}
                 THEN Advance(r, Continue(first.pc, request, env, cached))
                 ELSE Advance(r, first)
    /\ UNCHANGED << env, store, minted, outs, mapper >>

\* Arrive, were the 200 of an earlier GET kept in a module-level cache and
\* served to a later request of the same URL
Arrive_cached(r) ==
    /\ pc[r] = "idle"
    /\ \E request \in ConcRequests :
          LET hits == { r2 \in Reqs : /\ pc[r2] = "done"
                                      /\ req[r2] = request
                                      /\ request.method = "GET"
                                      /\ resp[r2][1].status = 200 }
          IN  /\ req' = [req EXCEPT ![r] = request]
              /\ IF hits # {}
                 THEN Advance(r, Done(resp[CHOOSE r2 \in hits : TRUE][1]))
                 ELSE Advance(r, fetchStart(request, env))
    /\ UNCHANGED << env, store, minted, outs, mapper >>

\* fetch is invoked for slot r and runs up to its first call
Arrive(r) ==
    /\ pc[r] = "idle"
    /\ \E request \in ConcRequests :
          /\ req' = [req EXCEPT ![r] = request]
          /\ Advance(r, fetchStart(request, env))
    /\ UNCHANGED << env, store, minted, outs, mapper >>

\* the store answers the call slot r awaits, and fetch runs on to its next
\* call or to its response
Answered(r) ==
    /\ pc[r] \notin {"unused", "idle", "done"}
    /\ \E a \in ConcAnswers(Pending(r)) :
          /\ Reply(r, a)
          /\ Advance(r, Continue(pc[r], req[r], env, githubRequest(a.res)))

ConcNext ==
    \/ \E r \in Reqs : Arrive(r)
    \/ \E r \in Reqs : Answered(r)

ConcSpec == ConcInit /\ [][ConcNext]_vars

(***************************************************************************)
(* The path mapper on its own: normalizeBaseDir, buildRepoPath and         *)
(* logicalPathFromGitPath applied to a configuration and a path, and then  *)
(* to their own results.  mapper.applied lists the applications            *)
(* [fn, arg, result] in order.                                             *)
(***************************************************************************)
\* at most this many applications in a row
MaxApplied == 2

\* the base directory unset, empty, plain, with trailing slashes, nested,
\* and nothing but a slash
BaseDirs == {Undefined, "", "docs", "docs/", "docs//", "a/b/", "/"}

MapperEnvs ==
    [GITHUB_OWNER : {"o"}, GITHUB_REPO : {"r"}, GITHUB_BRANCH : {"main"},
     GITHUB_TOKEN : {"gh"}, DOCS_BASE_DIR : BaseDirs,
     DOCSTORE_API_TOKEN : {"tk"}]

\* paths with and without leading slashes, inside and outside the base
\* directories, and paths that already carry a base directory
MapperPaths ==
    {"", "/", "//", "a.md", "/a.md", "//a.md", "ftl/canon.md", "ftl/",
     "docs", "/docs", "docs/", "docs/a.md", "/docs/a.md", "docs/docs/a.md",
     "docsx/a.md", "other/x.md", "a/b", "a/b/c.md", "a/bc"}

MapperInit ==
    /\ env \in MapperEnvs
    /\ store = [p \in RepoFiles |-> AbsentFile]
    /\ minted = 1
    /\ req = [r \in Reqs |-> NoRequest]
    /\ pc = [r \in Reqs |-> "unused"]
    /\ calls = [r \in Reqs |-> << >>]
    /\ outs = [r \in Reqs |-> << >>]
    /\ resp = [r \in Reqs |-> << >>]
    /\ \E p \in MapperPaths : mapper = [input |-> p, applied |-> << >>]

\* the last application
LastApplied == mapper.applied[Len(mapper.applied)]

\* the function fn may be applied next: first, or to a result of one of the
\* functions after
MayApply(after) ==
    /\ Len(mapper.applied) < MaxApplied
    /\ mapper.applied # << >> => LastApplied.fn \in after

\* what the next application is given: the input, or the last result
NextArg(first) ==
    IF mapper.applied = << >> THEN first ELSE LastApplied.result

Apply(fn, arg, result) ==
    /\ mapper' = [mapper EXCEPT !.applied =
                      Append(@, [fn |-> fn, arg |-> arg, result |-> result])]
    /\ UNCHANGED << env, store, minted, req, pc, calls, outs, resp >>

\* normalizeBaseDir(env), and then normalizeBaseDir of a configuration whose
\* base directory is that result
ApplyNormalizeBaseDir ==
    /\ MayApply({"normalizeBaseDir"})
    /\ LET arg == NextArg(env.DOCS_BASE_DIR)
       IN  Apply("normalizeBaseDir", arg,
                 normalizeBaseDir([env EXCEPT !.DOCS_BASE_DIR = arg]))

\* buildRepoPath(env, path), of the input or of its own result
ApplyBuildRepoPath ==
    /\ MayApply({"buildRepoPath"})
    /\ LET arg == NextArg(mapper.input)
       IN  Apply("buildRepoPath", arg, buildRepoPath(env, arg))

\* logicalPathFromGitPath(env, path), of the input or of a result of
\* buildRepoPath
ApplyLogicalPathFromGitPath ==
    /\ MayApply({"buildRepoPath"})
    /\ LET arg == NextArg(mapper.input)
       IN  Apply("logicalPathFromGitPath", arg,
                 logicalPathFromGitPath(env, arg))

MapperNext ==
    \/ ApplyNormalizeBaseDir
    \/ ApplyBuildRepoPath
    \/ ApplyLogicalPathFromGitPath

MapperSpec == MapperInit /\ [][MapperNext]_vars

(***************************************************************************)
(* Vocabulary of the properties.                                           *)
(***************************************************************************)
\* fetch has been invoked for slot r
Started(r) == pc[r] \notin {"unused", "idle"}

Finished(r) == pc[r] = "done"

\* the response of a finished request
Response(r) == resp[r][1]

\* every route but the liveness probe
Protected(q) == ~(q.pathname = "/" /\ q.method = "GET")

TokenConfigured == env.DOCSTORE_API_TOKEN \notin {Undefined, ""}

\* the request of slot r went into putFile / deleteFile: its discovery read
\* was issued
InPut(r) == req[r].method = "PUT" /\ Len(calls[r]) >= 1
InDelete(r) == req[r].method = "DELETE" /\ Len(calls[r]) >= 1

\* the discovery read of r has been answered
Discovered(r) == Len(outs[r]) >= 1

\* a retrieval that found a document: a file object, which carries a marker
FoundDocument(out) ==
    /\ ~out.thrown
    /\ out.value.t = "object"
    /\ Field(out.value, "type") = "file"

\* a retrieval that reported the path absent
ReportedAbsent(out) ==
    out.thrown /\ "status" \in DOMAIN out /\ out.status = 404

\* the calls of r with one of the given methods
CallsWith(r, methods) ==
    { i \in 1 .. Len(calls[r]) : calls[r][i].method \in methods }

(***************************************************************************)
(* C1.  In every put, the write carries exactly the revision marker the    *)
(* request's own discovery read returned when that read found a document,  *)
(* and no sha at all when that read reported the document absent (404).    *)
(***************************************************************************)
PutWriteCarriesDiscoveredSha ==
    \A r \in Reqs :
        (req[r].method = "PUT" /\ Len(calls[r]) = 2) =>
            /\ calls[r][2].method = "PUT"
            /\ FoundDocument(outs[r][1]) =>
                   calls[r][2].body.sha = outs[r][1].value.sha
            /\ ReportedAbsent(outs[r][1]) =>
                   calls[r][2].body.sha = Undefined

\* an update: the discovery read found the document with marker s1 and the
\* write carries s1
PutUpdateIssued ==
    \E r \in Reqs :
        /\ req[r].method = "PUT" /\ Len(calls[r]) = 2
        /\ FoundDocument(outs[r][1])
        /\ outs[r][1].value.sha = ShaOf(1)
        /\ calls[r][2].body.sha = ShaOf(1)

(***************************************************************************)
(* C2.  put fails closed: when the discovery read fails with anything but  *)
(* a 404, no write is issued and the request is answered with an error     *)
(* response that carries that failure.                                     *)
(***************************************************************************)
PutFailsClosed ==
    \A r \in Reqs :
        (InPut(r) /\ Discovered(r) /\ outs[r][1].thrown
            /\ ~ReportedAbsent(outs[r][1])) =>
            /\ Len(calls[r]) = 1
            /\ Finished(r)
            /\ resp[r] = << [status |-> 500,
                             body |-> [error |-> outs[r][1].message]] >>

\* a put whose discovery read was answered with status 500
PutDiscoveryFailed ==
    \E r \in Reqs :
        /\ InPut(r) /\ Discovered(r) /\ outs[r][1].thrown
        /\ "status" \in DOMAIN outs[r][1] /\ outs[r][1].status = 500
        /\ Finished(r)

(***************************************************************************)
(* C3.  A delete whose discovery read reports the document absent (404)    *)
(* issues no delete call and is answered 404.                              *)
(***************************************************************************)
DeleteAbsentIsNotFound ==
    \A r \in Reqs :
        (InDelete(r) /\ Discovered(r) /\ ReportedAbsent(outs[r][1])) =>
            /\ calls[r] = << getFile(env, docPathOf(req[r])) >>
            /\ Finished(r)
            /\ Len(resp[r]) = 1
            /\ Response(r).status = 404
            /\ Response(r).body.error \in STRING

\* a delete of a path the store does not hold, answered
DeleteAbsentAnswered ==
    \E r \in Reqs :
        /\ InDelete(r) /\ Discovered(r) /\ ReportedAbsent(outs[r][1])
        /\ store["docs/a.md"].sha = Undefined
        /\ Finished(r)

(***************************************************************************)
(* C4.  A delete whose discovery read found the document issues exactly    *)
(* one delete call, whose body carries the configured branch and the       *)
(* marker that read returned; once the store has accepted it, the request  *)
(* is answered 200 with the commit identifier of the store's answer.       *)
(***************************************************************************)
DeleteExistingDeletesOnce ==
    \A r \in Reqs :
        (InDelete(r) /\ Discovered(r) /\ FoundDocument(outs[r][1])) =>
            /\ Len(calls[r]) = 2
            /\ CallsWith(r, {"DELETE"}) = {2}
            /\ CallsWith(r, {"PUT"}) = {}
            /\ calls[r][2].body.sha = outs[r][1].value.sha
            /\ calls[r][2].body.branch = env.GITHUB_BRANCH
            /\ (Len(outs[r]) = 2 /\ ~outs[r][2].thrown
                   /\ Field(outs[r][2].value, "commit") = ObjectMarker) =>
                   /\ Finished(r)
                   /\ Len(resp[r]) = 1
                   /\ Response(r).status = 200
                   /\ Response(r).body.commit.sha
                          = outs[r][2].value.commit_sha

\* the store accepted the delete of the document found with marker s1 and
\* the request was answered with the commit c2
DeleteExistingSucceeded ==
    \E r \in Reqs :
        /\ InDelete(r) /\ Len(outs[r]) = 2
        /\ FoundDocument(outs[r][1])
        /\ calls[r][2].body.sha = ShaOf(1)
        /\ store["docs/a.md"].sha = Undefined
        /\ Finished(r)
        /\ Response(r).status = 200
        /\ Response(r).body.commit.sha = CommitOf(2)

(***************************************************************************)
(* C5.  With an API token configured, a request to a protected route whose *)
(* Authorization header is missing or differs from "Bearer <token>" is     *)
(* answered 401 and no backing-store call is issued for it.                *)
(***************************************************************************)
UnauthorizedIsRejected ==
    \A r \in Reqs :
        (Started(r) /\ Protected(req[r]) /\ TokenConfigured
            /\ (req[r].auth = Undefined
                   \/ req[r].auth # "Bearer " \o env.DOCSTORE_API_TOKEN)) =>
            /\ Finished(r)
            /\ calls[r] = << >>
            /\ resp[r] = << [status |-> 401,
                             body |-> [error |-> "Unauthorized"]] >>

\* a PUT of a document with a well-formed body and no Authorization header,
\* answered
UnauthorizedPutAnswered ==
    \E r \in Reqs :
        /\ Finished(r) /\ TokenConfigured
        /\ req[r].method = "PUT" /\ req[r].pathname = "/docs/a.md"
        /\ req[r].body.kind = "object" /\ req[r].body.content # NotAString
        /\ req[r].auth = Undefined
        /\ Response(r).status = 401

(***************************************************************************)
(* C6.  With an API token configured, a protected request is turned away   *)
(* as unauthorized exactly when its Authorization header is not the        *)
(* string "Bearer <token>": a header that contains that string, is a       *)
(* prefix of it, or differs from it in case or white space is rejected,    *)
(* and the exact header never is.                                          *)
(***************************************************************************)
AcceptedIffExactBearer ==
    \A r \in Reqs :
        (Started(r) /\ Protected(req[r]) /\ TokenConfigured) =>
            LET rejected == /\ Finished(r)
                            /\ Response(r).status = 401
                            /\ calls[r] = << >>
                expected == "Bearer " \o env.DOCSTORE_API_TOKEN
            IN  rejected <=> ~(req[r].auth = expected)

\* the exact header was accepted (a call was issued) for one request shape,
\* which the near-miss headers of AuthHeaders were refused
ExactBearerAccepted ==
    \E r \in Reqs :
        /\ Started(r) /\ TokenConfigured
        /\ env.DOCSTORE_API_TOKEN = "tk"
        /\ req[r].auth = "Bearer tk"
        /\ Len(calls[r]) >= 1

(***************************************************************************)
(* C7.  With no API token configured (unset or empty), every protected     *)
(* request, whatever its Authorization header, is answered 500 and no      *)
(* backing-store call is issued for it.                                    *)
(***************************************************************************)
UnconfiguredTokenIsServerError ==
    \A r \in Reqs :
        (Started(r) /\ Protected(req[r]) /\ ~TokenConfigured) =>
            /\ Finished(r)
            /\ calls[r] = << >>
            /\ Len(resp[r]) = 1
            /\ Response(r).status = 500
            /\ Response(r).body.error \in STRING

\* a document GET carrying "Bearer " answered 500 by a Worker whose token
\* is unset
UnconfiguredAnswered ==
    \E r \in Reqs :
        /\ Finished(r) /\ env.DOCSTORE_API_TOKEN = Undefined
        /\ req[r].method = "GET" /\ req[r].pathname = "/docs/a.md"
        /\ req[r].auth = "Bearer tk"
        /\ Response(r).status = 500

(***************************************************************************)
(* C8.  When the store rejects the write or delete of a request because    *)
(* the marker it carries is stale (another writer changed or deleted the   *)
(* document after the discovery read), the request issues no further call  *)
(* and is answered 500 with the store's conflict message, never 200.       *)
(***************************************************************************)
\* the i-th call of r was rejected by the store as a conflict
Conflict(r, i) ==
    /\ Len(outs[r]) >= i
    /\ outs[r][i].thrown
    /\ "status" \in DOMAIN outs[r][i]
    /\ outs[r][i].status = 409

\* r waits on a write or delete whose marker is not the one the store
\* holds now: the document was changed, deleted or created since r's
\* discovery read
StaleAtStore(r) ==
    /\ pc[r] \in {"putWrite", "deleteDelete"}
    /\ CallRepoPath(env, Pending(r)) \in RepoFiles
    /\ Pending(r).body.sha # store[CallRepoPath(env, Pending(r))].sha

StaleWriteIsSurfaced ==
    [][\A r \in Reqs :
          (StaleAtStore(r) /\ pc'[r] # pc[r]) =>
              /\ pc'[r] = "done"
              /\ calls'[r] = calls[r]
              /\ Len(resp'[r]) = 1
              /\ resp'[r][1].status \in {404, 500}
              /\ store' = store
              /\ Conflict(r, 2)' =>
                     resp'[r] = << [status |-> 500,
                                    body |-> [error |-> outs'[r][2].message]] >>
      ]_vars

\* the discovery read returned marker s1, another writer then replaced the
\* document, and the request's write carrying s1 was rejected
StaleWriteRejected ==
    \E r \in Reqs :
        /\ Conflict(r, 2)
        /\ FoundDocument(outs[r][1])
        /\ calls[r][2].body.sha = ShaOf(1)
        /\ store["docs/a.md"].sha = ShaOf(2)
        /\ Finished(r)

(***************************************************************************)
(* C9.  Every backing-store call is attempted once.  A request issues at   *)
(* most one retrieval and at most one mutation: at most two calls for PUT  *)
(* and DELETE, at most one for a document GET and a listing, none for the  *)
(* liveness probe and for a request that is rejected; after a call that    *)
(* failed, other than a 404 on put's discovery read, it issues none.       *)
(***************************************************************************)
\* a request answered without being served: not authenticated, no such
\* route, method not allowed, or a PUT without content
Rejected(q) ==
    \/ ~checkAuth(q, env).ok
    \/ ~(StartsWith(q.pathname, "/docs/")
           \/ (q.pathname = "/docs" /\ q.method = "GET"))
    \/ q.method \notin {"GET", "PUT", "DELETE"}
    \/ (q.method = "PUT"
          /\ (q.body.kind # "object" \/ q.body.content = NotAString))

CallsAttemptedOnce ==
    \A r \in Reqs :
        /\ Cardinality(CallsWith(r, {"GET"})) <= 1
        /\ Cardinality(CallsWith(r, {"PUT", "DELETE"})) <= 1
        /\ Len(calls[r]) <= 2
        /\ Len(calls[r]) = 2 =>
               /\ req[r].method \in {"PUT", "DELETE"}
               /\ calls[r][1].method = "GET"
               /\ calls[r][2].method = req[r].method
        /\ (Started(r) /\ (~Protected(req[r]) \/ Rejected(req[r]))) =>
               calls[r] = << >>
        /\ \A i \in 1 .. Len(outs[r]) :
               (outs[r][i].thrown
                  /\ ~(i = 1 /\ req[r].method = "PUT"
                         /\ ReportedAbsent(outs[r][i]))) =>
                   Len(calls[r]) = i /\ Finished(r)

\* a put whose discovery read was answered 404 and whose write then failed
\* on the network: two calls, and the request is over
PutBothCallsFailed ==
    \E r \in Reqs :
        /\ InPut(r) /\ Len(outs[r]) = 2
        /\ ReportedAbsent(outs[r][1])
        /\ outs[r][2].thrown /\ "status" \notin DOMAIN outs[r][2]
        /\ Len(calls[r]) = 2
        /\ Finished(r)

(***************************************************************************)
(* C10.  Every request ends with exactly one JSON response, whatever the   *)
(* request and whatever the backing store answers; a response that is not  *)
(* a success has status 400, 401, 404, 405 or 500 and a body with a string *)
(* error field.  A request that is not over waits on a call it issued.     *)
(***************************************************************************)
AlwaysOneJsonResponse ==
    \A r \in Reqs :
        /\ Len(resp[r]) = (IF Finished(r) THEN 1 ELSE 0)
        /\ (Started(r) /\ ~Finished(r)) => Len(calls[r]) = Len(outs[r]) + 1
        /\ Finished(r) =>
               /\ Len(calls[r]) = Len(outs[r])
               /\ Response(r).status \in {200, 400, 401, 404, 405, 500}
               /\ Response(r).status # 200 =>
                      /\ "error" \in DOMAIN Response(r).body
                      /\ Response(r).body.error \in STRING
                      /\ Response(r).body.error \notin {Undefined, ""}

\* a document path with a malformed percent escape, answered by the
\* top-level catch
MalformedPathAnswered ==
    \E r \in Reqs :
        /\ Finished(r)
        /\ req[r].pathname = "/docs/%"
        /\ Response(r).status = 500
        /\ Response(r).body.error = "Unexpected error"

(***************************************************************************)
(* Vocabulary of the path mapper's properties.                             *)
(***************************************************************************)
\* the applications of fn, by their place in mapper.applied
Applications(fn) ==
    { i \in 1 .. Len(mapper.applied) : mapper.applied[i].fn = fn }

Applied(i) == mapper.applied[i]

\* a string of k slashes
RECURSIVE Slashes(_)
Slashes(k) == IF k = 0 THEN "" ELSE "/" \o Slashes(k - 1)

EndsWithSlash(s) == Len(s) > 0 /\ SubSeq(s, Len(s), Len(s)) = "/"

\* the base directory b of the configuration: the configured string, "docs"
\* when none is configured, without its trailing slashes
ConfiguredBaseDir ==
    IF env.DOCS_BASE_DIR \in {Undefined, ""} THEN "docs"
    ELSE env.DOCS_BASE_DIR

TheBaseDir ==
    CHOOSE b \in { SubSeq(ConfiguredBaseDir, 1, k) :
                      k \in 0 .. Len(ConfiguredBaseDir) } :
        /\ ~EndsWithSlash(b)
        /\ \E k \in 0 .. Len(ConfiguredBaseDir) :
              ConfiguredBaseDir = b \o Slashes(k)

NeverDoublePrefixes ==
    \A i \in Applications("buildRepoPath") :
        LET stripped == StripLeadingSlashes(Applied(i).arg)
        IN  /\ (stripped = TheBaseDir
                  \/ StartsWith(stripped, TheBaseDir \o "/")) =>
                   Applied(i).result = stripped
            /\ (i > 1 /\ Applied(i - 1).fn = "buildRepoPath") =>
                   Applied(i).result = Applied(i).arg

(***************************************************************************)
(* C13.  buildRepoPath of "" and of "/" is the base directory b itself,    *)
(* without a trailing slash, whether b is configured with trailing slashes *)
(* or without.                                                             *)
(***************************************************************************)
EmptyPathIsBaseDir ==
    \A i \in Applications("buildRepoPath") :
        Applied(i).arg \in {"", "/"} =>
            /\ Applied(i).result = TheBaseDir
            /\ ~EndsWithSlash(Applied(i).result)

\* buildRepoPath of "/" under the base directory "docs//" returned "docs"
SlashMappedToBaseDir ==
    /\ env.DOCS_BASE_DIR = "docs//"
    /\ Applications("buildRepoPath") # {}
    /\ Applied(1).arg = "/"
    /\ Applied(1).result = "docs"

(***************************************************************************)
(* C14.  logicalPathFromGitPath returns "" for the base directory b, the   *)
(* rest after b + "/" for a path that starts with b + "/", and the path    *)
(* itself for every other path, also one that starts with b but not with   *)
(* b + "/"; trailing slashes of the configured base directory change       *)
(* nothing.                                                                *)
(***************************************************************************)
LogicalPathOfGitPath ==
    \A i \in Applications("logicalPathFromGitPath") :
        LET gitPath == Applied(i).arg
            logical == Applied(i).result
        IN  IF gitPath = TheBaseDir THEN logical = ""
            ELSE IF StartsWith(gitPath, TheBaseDir \o "/")
            THEN TheBaseDir \o "/" \o logical = gitPath
            ELSE logical = gitPath

\* "docsx/a.md", which starts with the base directory of "docs/" but is not
\* inside it, came back unchanged
OutsidePathPassedThrough ==
    /\ env.DOCS_BASE_DIR = "docs/"
    /\ Applications("logicalPathFromGitPath") = {1}
    /\ Applied(1).arg = "docsx/a.md"
    /\ Applied(1).result = "docsx/a.md"

(***************************************************************************)
(* C15.  normalizeBaseDir returns the configured base directory without    *)
(* its trailing slashes, "docs" when none is configured, and is            *)
(* idempotent: normalizeBaseDir of a configuration whose base directory is *)
(* a result of normalizeBaseDir is that result.                            *)
(***************************************************************************)
NormalizeBaseDirIdempotent ==
    \A i \in Applications("normalizeBaseDir") :
        /\ i = 1 => Applied(i).result = TheBaseDir
        /\ ~EndsWithSlash(Applied(i).result)
        /\ i > 1 => Applied(i).result = Applied(i).arg

(***************************************************************************)
(* Vocabulary of the routes.                                               *)
(***************************************************************************)
\* r is an authenticated request on a well-formed document path
OnDocument(r) ==
    /\ Started(r)
    /\ checkAuth(req[r], env).ok
    /\ StartsWith(req[r].pathname, "/docs/")
    /\ docPathOf(req[r]) # URIError

\* r is an authenticated listing request
OnCollection(r) ==
    /\ Started(r)
    /\ checkAuth(req[r], env).ok
    /\ req[r].pathname = "/docs" /\ req[r].method = "GET"

\* r has been answered 200
Succeeded(r) == Finished(r) /\ Response(r).status = 200

\* the i-th call of r failed with the status of a backing-store response
FailedWithStatus(r, i) ==
    /\ Len(outs[r]) >= i
    /\ outs[r][i].thrown
    /\ "status" \in DOMAIN outs[r][i]

(***************************************************************************)
(* C16.  A PUT on a document path whose body is not parseable JSON or has  *)
(* no string content is answered 400, and no backing-store call is issued  *)
(* for it.                                                                 *)
(***************************************************************************)
PutWithoutContentIsBadRequest ==
    \A r \in Reqs :
        (OnDocument(r) /\ req[r].method = "PUT"
            /\ (req[r].body.kind # "object"
                  \/ req[r].body.content = NotAString)) =>
            /\ Finished(r)
            /\ calls[r] = << >>
            /\ Response(r).status = 400

(***************************************************************************)
(* C17.  A document GET tells absence from failure: a 404 of the retrieval *)
(* is answered 404 with an error body; every other non-success response of *)
(* the backing store is answered 500, with the store's own message as the  *)
(* error when it sent one; neither is ever rendered as the other.          *)
(***************************************************************************)
GetTellsAbsenceFromFailure ==
    \A r \in Reqs :
        (OnDocument(r) /\ req[r].method = "GET" /\ Discovered(r)) =>
            LET out == outs[r][1]
                \* the non-success responses with the status githubRequest
                \* reported
                sent == { a.res : a \in { b \in Answers(env, store, minted,
                                                        calls[r][1]) :
                                            /\ b.res.kind = "http"
                                            /\ ~ResOk(b.res)
                                            /\ b.res.status = out.status } }
            IN  /\ Finished(r) /\ Len(resp[r]) = 1
                /\ ReportedAbsent(out) =>
                       /\ Response(r).status = 404
                       /\ Response(r).body.error \in STRING
                /\ (FailedWithStatus(r, 1) /\ ~ReportedAbsent(out)) =>
                       /\ Response(r).status = 500
                       /\ \A res \in sent :
                              Truthy(Prop(res.json, "message")) =>
                                  Response(r).body.error = res.json.message
                /\ Response(r).status = 404 => ReportedAbsent(out)

\* a document GET whose retrieval the store answered 500 "Server Error",
\* answered 500 with that message
GetFailureAnswered ==
    \E r \in Reqs :
        /\ OnDocument(r) /\ req[r].method = "GET"
        /\ FailedWithStatus(r, 1) /\ outs[r][1].status = 500
        /\ Finished(r)
        /\ Response(r) = [status |-> 500, body |-> [error |-> "Server Error"]]

(***************************************************************************)
(* C18.  When the backing store answers the listing retrieval with a       *)
(* single object instead of an array, the listing has that object as its   *)
(* only entry; the items of a successful listing response are always an    *)
(* array.                                                                  *)
(***************************************************************************)
SingleObjectListedAsOne ==
    \A r \in Reqs :
        (OnCollection(r) /\ Discovered(r)) =>
            /\ Finished(r) /\ Len(resp[r]) = 1
            /\ (~outs[r][1].thrown /\ outs[r][1].value.t = "object") =>
                   /\ Response(r).status = 200
                   /\ Len(Response(r).body.items) = 1
                   /\ Response(r).body.items[1].name
                          = Field(outs[r][1].value, "name")
                   /\ Response(r).body.items[1].type
                          = Field(outs[r][1].value, "type")
            /\ Response(r).status = 200 =>
                   /\ "items" \in DOMAIN Response(r).body
                   /\ DOMAIN Response(r).body.items
                          = 1 .. Len(Response(r).body.items)

\* the listing of dir=a.md, which the store holds as a file, answered with
\* the one entry a.md
FileListedAsOne ==
    \E r \in Reqs :
        /\ OnCollection(r) /\ req[r].dir = "a.md"
        /\ Discovered(r) /\ FoundDocument(outs[r][1])
        /\ Succeeded(r)
        /\ Len(Response(r).body.items) = 1
        /\ Response(r).body.items[1].name = "a.md"
        /\ Response(r).body.items[1].type = "file"

(***************************************************************************)
(* C19.  Every entry of a listing response has its path in logical form:   *)
(* for an entry the store reports at b + "/" + p the path returned is p,   *)
(* the logical path of the store's path.                                   *)
(***************************************************************************)
ListingPathsAreLogical ==
    \A r \in Reqs :
        (OnCollection(r) /\ Succeeded(r) /\ outs[r][1].value.t = "array") =>
            \A i \in 1 .. Len(Response(r).body.items) :
                LET gitPath == Field(outs[r][1].value.items[i], "path")
                IN  gitPath # Undefined =>
                        Response(r).body.items[i].path
                            = logicalPathFromGitPath(env, gitPath)

(***************************************************************************)
(* C20.  The path of a successful document GET, PUT or DELETE response is  *)
(* the logical path, without the base directory: the logical path of the   *)
(* path the store reports, and of the repository path the request          *)
(* addressed.                                                              *)
(***************************************************************************)
ResponsePathIsLogical ==
    \A r \in Reqs :
        (OnDocument(r) /\ Succeeded(r)) =>
            LET gitPath ==
                    CASE req[r].method = "GET" ->
                             Field(outs[r][1].value, "path")
                      [] req[r].method = "PUT" ->
                             Field(outs[r][2].value, "content_path")
                      [] OTHER -> CallRepoPath(env, calls[r][2])
            IN  gitPath # Undefined =>
                    /\ Response(r).body.path
                           = logicalPathFromGitPath(env, gitPath)
                    /\ ~StartsWith(Response(r).body.path,
                                   TheBaseDir \o "/")

(***************************************************************************)
(* Vocabulary of the commit messages.                                      *)
(***************************************************************************)
\* the message the body of r's request carries, Undefined when it has none
SuppliedMessage(r) ==
    IF req[r].body.kind = "object" THEN req[r].body.message ELSE Undefined

\* the repository path the mutation of r addresses
MutatedPath(r) == CallRepoPath(env, calls[r][2])

\* the message of put's write is the generated default
DefaultPutMessage(r) ==
    /\ ReportedAbsent(outs[r][1]) =>
           calls[r][2].body.message = "Create " \o MutatedPath(r)
    /\ FoundDocument(outs[r][1]) =>
           calls[r][2].body.message = "Update " \o MutatedPath(r)

(***************************************************************************)
(* C21 as claimed.  The commit message of put's write: a message the       *)
(* caller supplies is sent unchanged; when the caller supplies none it is  *)
(* "Create <repositoryPath>" after a discovery read that found no document *)
(* and "Update <repositoryPath>" after one that found it.                  *)
(***************************************************************************)
SuppliedMessageSentUnchanged ==
    \A r \in Reqs :
        (InPut(r) /\ Len(calls[r]) = 2) =>
            IF SuppliedMessage(r) # Undefined
            THEN calls[r][2].body.message = SuppliedMessage(r)
            ELSE DefaultPutMessage(r)

(***************************************************************************)
(* C21 as amended.  A non-empty message the caller supplies is sent        *)
(* unchanged; when the caller supplies none, or the empty string, the      *)
(* message is "Create <repositoryPath>" after a discovery read that found  *)
(* no document and "Update <repositoryPath>" after one that found it.      *)
(***************************************************************************)
PutCommitMessage ==
    \A r \in Reqs :
        (InPut(r) /\ Len(calls[r]) = 2) =>
            IF SuppliedMessage(r) \notin {Undefined, ""}
            THEN calls[r][2].body.message = SuppliedMessage(r)
            ELSE DefaultPutMessage(r)

\* a put with the empty message on a document the discovery read found:
\* the write carries "Update docs/a.md"
EmptyMessageDefaulted ==
    \E r \in Reqs :
        /\ InPut(r) /\ Len(calls[r]) = 2
        /\ SuppliedMessage(r) = ""
        /\ FoundDocument(outs[r][1])
        /\ calls[r][2].body.message = "Update docs/a.md"

(***************************************************************************)
(* C22.  A DELETE without a commit message (no or an unparseable body, or  *)
(* a body without a string message) is not rejected: its discovery read is *)
(* issued, and when that finds the document the delete call carries        *)
(* "Delete <repositoryPath>".                                              *)
(***************************************************************************)
DeleteWithoutMessageProceeds ==
    \A r \in Reqs :
        (OnDocument(r) /\ req[r].method = "DELETE"
            /\ SuppliedMessage(r) = Undefined) =>
            /\ Len(calls[r]) >= 1
            /\ calls[r][1] = getFile(env, docPathOf(req[r]))
            /\ (Discovered(r) /\ FoundDocument(outs[r][1])) =>
                   /\ Len(calls[r]) = 2
                   /\ calls[r][2].body.message = "Delete " \o MutatedPath(r)

(***************************************************************************)
(* C23.  The liveness probe, GET on "/", is answered 200 {status: "ok"}    *)
(* without an Authorization header and without a backing-store call, and   *)
(* no other method and path is served without the valid bearer token: any  *)
(* such request is turned away with 401 or 500 before a call is issued.    *)
(***************************************************************************)
\* r carries the configured API token as its bearer token
ValidBearer(r) ==
    /\ TokenConfigured
    /\ req[r].auth = "Bearer " \o env.DOCSTORE_API_TOKEN

AbsentDirectoryIsNotFound ==
    \A r \in Reqs :
        (OnCollection(r) /\ Discovered(r) /\ ReportedAbsent(outs[r][1])) =>
            /\ Finished(r)
            /\ Len(resp[r]) = 1
            /\ Response(r).status = 404
            /\ Response(r).body.error \in STRING

(***************************************************************************)
(* C26.  A document GET whose retrieval succeeds with something that is    *)
(* not a file, a directory listing or an object of another type, is        *)
(* answered 400, never 200 and never 500.                                  *)
(***************************************************************************)
\* what a successful retrieval returned is a directory listing, or an object
\* that is not of type file
NotAFile(out) ==
    /\ ~out.thrown
    /\ \/ out.value.t = "array"
       \/ out.value.t = "object" /\ Field(out.value, "type") # "file"

DirectoryIsBadRequest ==
    \A r \in Reqs :
        (OnDocument(r) /\ req[r].method = "GET" /\ Discovered(r)
            /\ NotAFile(outs[r][1])) =>
            /\ Finished(r)
            /\ Len(resp[r]) = 1
            /\ Response(r).status = 400
            /\ Response(r).body.error \in STRING

\* GET /docs/ addresses the base directory, which the store lists with its
\* file a.md: answered 400
DirectoryGetRefused ==
    \E r \in Reqs :
        /\ OnDocument(r) /\ req[r].method = "GET"
        /\ req[r].pathname = "/docs/"
        /\ Discovered(r) /\ ~outs[r][1].thrown
        /\ outs[r][1].value.t = "array"
        /\ Field(outs[r][1].value.items[1], "path") = "docs/a.md"
        /\ Finished(r)
        /\ Response(r).status = 400

(***************************************************************************)
(* C27.  Text round trip: fromBase64(toBase64(text)) is text for every     *)
(* text, also one with characters of more than one byte, so that a put     *)
(* whose discovery read found the document or reported it absent writes a  *)
(* content that decodes to the text of the request.                        *)
(***************************************************************************)
TextRoundTrip ==
    \A r \in Reqs :
        (InPut(r) /\ Discovered(r)
            /\ (ReportedAbsent(outs[r][1]) \/ FoundDocument(outs[r][1]))) =>
            /\ ~toBase64(req[r].body.content).thrown
            /\ Len(calls[r]) = 2
            /\ fromBase64(calls[r][2].body.content)
                   = Returned(req[r].body.content)

(***************************************************************************)
(* C28.  Handling a request never changes the configuration and leaves no  *)
(* state behind: what a request does, the calls it issues and its          *)
(* response, is determined by the request, the configuration and the       *)
(* answers it received, whatever requests were handled before it or are    *)
(* handled at the same time.  Two requests that are equal and have         *)
(* received the same first k answers have done the same after the k-th.    *)
(***************************************************************************)
\* what r did after its k-th answer: its next call, or its response
Outcome(r, k) ==
    IF Len(calls[r]) > k THEN [call |-> calls[r][k + 1]]
    ELSE [response |-> resp[r]]

Min(a, b) == IF a <= b THEN a ELSE b

Determined ==
    \A r1, r2 \in Reqs :
        (Started(r1) /\ Started(r2) /\ req[r1] = req[r2]) =>
            \A k \in 0 .. Min(Len(outs[r1]), Len(outs[r2])) :
                SubSeq(outs[r1], 1, k) = SubSeq(outs[r2], 1, k) =>
                    Outcome(r1, k) = Outcome(r2, k)

OtherTokens == {"gh2", ""}

Contains(s, t) ==
    \E i \in 1 .. Len(s) - Len(t) + 1 : SubSeq(s, i, i + Len(t) - 1) = t

IsError(r) == Finished(r) /\ Response(r).status >= 400

\* the messages of an error body
Messages(body) == { body[f] : f \in DOMAIN body \cap {"error", "detail"} }

NoSecretInResponse ==
    \A r \in Reqs :
        /\ Finished(r) =>
               \A t \in OtherTokens :
                   fetch(req[r], [env EXCEPT !.GITHUB_TOKEN = t], outs[r])
                       = Done(Response(r))
        /\ IsError(r) =>
               \A m \in Messages(Response(r).body) :
                   /\ ~Contains(m, env.GITHUB_TOKEN)
                   /\ TokenConfigured => ~Contains(m, env.DOCSTORE_API_TOKEN)

\* a call that carried the credential failed, and the message of the
\* backing store was passed on in the 500
StoreMessagePassedOn ==
    \E r \in Reqs :
        /\ IsError(r) /\ Response(r).status = 500
        /\ TokenConfigured
        /\ Len(calls[r]) = 2
        /\ calls[r][2].authorization = "Bearer " \o env.GITHUB_TOKEN
        /\ outs[r][2].thrown
        /\ Response(r).body.error = outs[r][2].message

(***************************************************************************)
(* C30.  In a listing every directory has type "dir" and a path that ends  *)
(* with a slash, and no file has a path that ends with a slash.            *)
(***************************************************************************)
DirectoriesEndWithSlash ==
    \A r \in Reqs :
        (Finished(r) /\ OnCollection(r) /\ Succeeded(r)) =>
            \A i \in 1 .. Len(Response(r).body.items) :
                LET item == Response(r).body.items[i]
                IN  /\ item.type = "dir" => EndsWithSlash(item.path)
                    /\ item.type = "file" => ~EndsWithSlash(item.path)

(***************************************************************************)
(* C31.  In every put and every delete the mutation call is the second     *)
(* call of the request, issued once the answer to the request's own        *)
(* discovery read has been received, and both calls address the same       *)
(* repository path: buildRepoPath of the percent-decoded logical path of   *)
(* the request.                                                            *)
(***************************************************************************)
MutationFollowsOwnDiscovery ==
    \A r \in Reqs :
        \A i \in CallsWith(r, {"PUT", "DELETE"}) :
            /\ calls[r][i].method = req[r].method
            /\ i = 2
            /\ Len(outs[r]) >= 1
            /\ calls[r][1].method = "GET"
            /\ CallRepoPath(env, calls[r][1])
                   = buildRepoPath(env, docPathOf(req[r]))
            /\ CallRepoPath(env, calls[r][2])
                   = buildRepoPath(env, docPathOf(req[r]))

\* a delete was issued after its discovery read; the base directory is configured
\* with a trailing slash
MutationIssued ==
    \E r \in Reqs :
        /\ env.DOCS_BASE_DIR = "docs/"
        /\ req[r].pathname = "/docs/a.md"
        /\ CallsWith(r, {"PUT", "DELETE"}) = {2}
        /\ CallRepoPath(env, calls[r][2]) = "docs/a.md"
        /\ req[r].method = "DELETE"

(***************************************************************************)
(* C32.  Every call of the backing store targets the configured branch:    *)
(* a retrieval names it as its only query parameter, ref, and a write or   *)
(* a delete names it as branch in its body, whatever the request carries   *)
(* in its path, query, headers or body.                                    *)
(***************************************************************************)
EveryCallOnConfiguredBranch ==
    \A r \in Reqs :
        \A i \in 1 .. Len(calls[r]) :
            IF calls[r][i].method = "GET"
            THEN QueryOf(calls[r][i].path)
                     = "?ref=" \o encodeURIComponent(env.GITHUB_BRANCH)
            ELSE /\ calls[r][i].body.branch = env.GITHUB_BRANCH
                 /\ QueryOf(calls[r][i].path) = ""

\* a put whose body names another branch wrote to the configured one
BodyBranchIgnored ==
    \E r \in Reqs :
        /\ req[r].method = "PUT"
        /\ req[r].body.branch = "other"
        /\ Len(calls[r]) = 2
        /\ calls[r][2].body.branch = "main"
        /\ Succeeded(r)

(***************************************************************************)
(* C33.  get decodes the content of a document to the same text whether    *)
(* or not the encoded content has line breaks in it: the response is the   *)
(* one for the content without its line breaks, and the one for the        *)
(* content with a further line break at any place.                         *)
(***************************************************************************)
RECURSIVE WithoutLineBreaks(_)
WithoutLineBreaks(s) ==
    IF s = "" THEN ""
    ELSE IF SubSeq(s, 1, 1) = "\n" THEN WithoutLineBreaks(Substring(s, 1))
    ELSE SubSeq(s, 1, 1) \o WithoutLineBreaks(Substring(s, 1))

WithLineBreakAt(s, k) == SubSeq(s, 1, k) \o "\n" \o SubSeq(s, k + 1, Len(s))

\* r is a get that was answered with a document
GotDocument(r) ==
    /\ OnDocument(r) /\ req[r].method = "GET"
    /\ Finished(r)
    /\ FoundDocument(outs[r][1])

MarkerRead(r) ==
    IF FoundDocument(outs[r][1]) THEN outs[r][1].value.sha ELSE Undefined

\* this step is the store accepting the mutation of r
Accepts(r) ==
    /\ Len(outs'[r]) = Len(outs[r]) + 1
    /\ calls[r][Len(outs'[r])].method \in {"PUT", "DELETE"}
    /\ ~outs'[r][Len(outs'[r])].thrown

AcceptedOnlyOverVersionRead ==
    \A r \in Reqs :
        Accepts(r) =>
            /\ Len(outs'[r]) = 2
            /\ FoundDocument(outs[r][1]) \/ ReportedAbsent(outs[r][1])
            /\ calls[r][2].body.sha = MarkerRead(r)
            /\ store[MutatedPath(r)].sha = MarkerRead(r)
            /\ store'[MutatedPath(r)].sha # MarkerRead(r)

SuccessMeansAccepted ==
    \A r \in Reqs :
        (Succeeded(r) /\ req[r].method \in {"PUT", "DELETE"}) =>
            /\ Len(outs[r]) = 2
            /\ ~outs[r][2].thrown

NoLostUpdate ==
    /\ []SuccessMeansAccepted
    /\ [][AcceptedOnlyOverVersionRead]_vars

\* a put and a delete both read the marker s1; the delete was accepted and
\* the put, now stale, was rejected by the store
PutLostRaceToDelete ==
    \E r1, r2 \in Reqs :
        /\ req[r1].method = "DELETE" /\ req[r2].method = "PUT"
        /\ Len(outs[r1]) = 2 /\ Len(outs[r2]) = 2
        /\ FoundDocument(outs[r1][1]) /\ outs[r2][1] = outs[r1][1]
        /\ Succeeded(r1)
        /\ Conflict(r2, 2)
        /\ store[MutatedPath(r2)].sha = Undefined

(***************************************************************************)
(* C35.  put issues a write without a revision marker only when its        *)
(* discovery read reported the path absent (404); a discovery read that    *)
(* succeeded, whatever it returned, is never followed by a write without   *)
(* marker.                                                                 *)
(***************************************************************************)
CreateOnlyAfterNotFound ==
    \A r \in Reqs :
        (req[r].method = "PUT" /\ Len(calls[r]) = 2
            /\ calls[r][2].body.sha = Undefined) =>
            ReportedAbsent(outs[r][1])

(***************************************************************************)
(* C36.  Authentication is decided before routing and before the body is   *)
(* read.  A request without the valid bearer token, on any route but the   *)
(* liveness probe, is answered 401, or 500 when no API token is            *)
(* configured, without a call of the backing store; the response is the    *)
(* one an unauthenticated listing request gets, whatever the path, the     *)
(* method and the body of the request, and never a 404, 405 or 400.        *)
(***************************************************************************)
Unauthenticated(r) ==
    /\ Started(r)
    /\ Protected(req[r])
    /\ ~ValidBearer(r)

\* a listing request without Authorization header
PlainListing ==
    [method |-> "GET", pathname |-> "/docs", dir |-> Undefined,
     auth |-> Undefined, body |-> NoBody]

AuthenticationDecidedFirst ==
    \A r \in Reqs :
        Unauthenticated(r) =>
            /\ Finished(r)
            /\ calls[r] = << >>
            /\ Response(r).status = IF TokenConfigured THEN 401 ELSE 500
            /\ Done(Response(r)) = fetch(PlainListing, env, << >>)

\* a request without the valid token, which a caller with the token sees
\* answered 404, 405, 400 or 500, was answered 401
UnauthenticatedLearnsNothing ==
    \E r \in Reqs :
        /\ Unauthenticated(r) /\ TokenConfigured
        /\ Response(r).status = 401
        /\ \/ req[r].pathname = "/other"
           \/ req[r].pathname = "/docs/a.md" /\ req[r].method = "POST"
           \/ req[r].method = "PUT" /\ req[r].body.kind = "unparseable"
           \/ req[r].pathname = "/docs/%"
        /\ fetch([req[r] EXCEPT !.auth = "Bearer tk"], env,
                 << >>).response.status \in {400, 404, 405, 500}

====
